---- MODULE Spec2Model ----
(***************************************************************************)
(* Model of the two icon generators of react-icon-builder:                 *)
(*   src/src/main.ts       full-markup pipeline (heroicons "solid")        *)
(*   src/unnamed/part_000  path-only pipeline (heroicons "outline")        *)
(* A JavaScript string is a sequence of one-character strings, so that the *)
(* regular expressions and string methods of the source are modelled by    *)
(* what they do to the characters.                                         *)
(***************************************************************************)
EXTENDS Integers, Sequences, FiniteSets, TLC

VARIABLES
    pipeline,   \* which program runs: "solid" (main.ts) or "outline" (part_000)
    repoDir,    \* the directory the hosting API lists: sequence of [name, download_url]
    dirs,       \* the directories that exist on disk
    files,      \* the files on disk: path -> text
    pc,         \* position of processGithubSvgs / convertSvgToReact
    svgUrls,    \* result of fetchGithubSvgUrls, the `urls` of convertSvgToReact
    idx,        \* 1-based position of the for..of loop in svgUrls
    inflight,   \* outstanding HTTP requests: "listing" or the index of a url
    requests,   \* every HTTP request issued so far, in order
    served,     \* what each completed per-icon fetch returned, by position
    writes,     \* every writeFileSync call so far, in order
    mkdirs,     \* positions of the items whose iteration called mkdirSync
    errors,     \* console.error calls so far
    str,        \* argument of toPascalCase (name derivation on its own)
    derived,    \* toPascalCase(str)
    rederived,  \* toPascalCase(toPascalCase(str))
    nstep       \* position of the name derivation: "in", "once", "twice"

vars == <<pipeline, repoDir, dirs, files, pc, svgUrls, idx, inflight, requests,
          served, writes, mkdirs, errors, str, derived, rederived, nstep>>

pipeVars == <<pipeline, repoDir, dirs, files, pc, svgUrls, idx, inflight, requests,
              served, writes, mkdirs, errors>>

nameVars == <<str, derived, rederived, nstep>>

----------------------------------------------------------------------------
(* Bounds of the model *)

\* longest directory listing
MaxFiles == 3

\* longest string given to toPascalCase on its own
MaxLen == 4

----------------------------------------------------------------------------
(* JavaScript string primitives *)

LowerLetters ==
    <<"a", "b", "c", "d", "e", "f", "g", "h", "i", "j", "k", "l", "m",
      "n", "o", "p", "q", "r", "s", "t", "u", "v", "w", "x", "y", "z">>

UpperLetters ==
    <<"A", "B", "C", "D", "E", "F", "G", "H", "I", "J", "K", "L", "M",
      "N", "O", "P", "Q", "R", "S", "T", "U", "V", "W", "X", "Y", "Z">>

Digits == {"0", "1", "2", "3", "4", "5", "6", "7", "8", "9"}

Range(f) == {f[k] : k \in DOMAIN f}

\* \w of a JavaScript regular expression: [A-Za-z0-9_]
IsWordChar(c) == c \in Range(LowerLetters) \cup Range(UpperLetters) \cup Digits \cup {"_"}

\* \s of a JavaScript regular expression
IsSpace(c) == c \in {" ", "\n", "\t"}

\* String.prototype.toUpperCase on one character
UpperChar(c) ==
    IF c \in Range(LowerLetters)
    THEN UpperLetters[CHOOSE k \in DOMAIN LowerLetters : LowerLetters[k] = c]
    ELSE c

ToUpperCase(s) == [k \in 1..Len(s) |-> UpperChar(s[k])]

\* whether pat occurs in s starting at position p
OccursAt(s, pat, p) ==
    /\ p >= 1
    /\ p + Len(pat) - 1 <= Len(s)
    /\ \A k \in 1..Len(pat) : s[p + k - 1] = pat[k]

\* String.prototype.indexOf, 1-based, 0 when pat does not occur
IndexOf(s, pat) ==
    LET hits == {p \in 1..(Len(s) + 1) : OccursAt(s, pat, p)}
    IN  IF hits = {} THEN 0 ELSE CHOOSE p \in hits : \A q \in hits : p <= q

\* String.prototype.lastIndexOf, 1-based, 0 when pat does not occur
LastIndexOf(s, pat) ==
    LET hits == {p \in 1..(Len(s) + 1) : OccursAt(s, pat, p)}
    IN  IF hits = {} THEN 0 ELSE CHOOSE p \in hits : \A q \in hits : q <= p

\* s.replace(pat, rep) with a string pattern: the first occurrence only
ReplaceFirst(s, pat, rep) ==
    LET p == IndexOf(s, pat)
    IN  IF p = 0 THEN s
        ELSE SubSeq(s, 1, p - 1) \o rep \o SubSeq(s, p + Len(pat), Len(s))

\* s.replace(/c/g, '') for a one-character pattern
RemoveAll(s, c) == SelectSeq(s, LAMBDA ch : ch # c)

\* String.prototype.endsWith
EndsWith(s, suffix) ==
    /\ Len(suffix) <= Len(s)
    /\ SubSeq(s, Len(s) - Len(suffix) + 1, Len(s)) = suffix

\* String.prototype.trim
RECURSIVE TrimStart(_)
TrimStart(s) ==
    IF s # <<>> /\ IsSpace(Head(s)) THEN TrimStart(Tail(s)) ELSE s

RECURSIVE TrimEnd(_)
TrimEnd(s) ==
    IF s # <<>> /\ IsSpace(s[Len(s)]) THEN TrimEnd(SubSeq(s, 1, Len(s) - 1)) ELSE s

Trim(s) == TrimEnd(TrimStart(s))

----------------------------------------------------------------------------
(* Name derivation *)

IconSuffix == <<"I", "c", "o", "n">>

\* text.replace(/-/, '').toUpperCase()
clearAndUpper(text) == ToUpperCase(ReplaceFirst(text, <<"-">>, <<>>))

\* as ReplaceWordStarts, had the regular expression no g flag: only the
\* first match is replaced
ReplaceFirstWordStart(s, p) ==
    IF s # <<>> /\ IsWordChar(s[1]) THEN clearAndUpper(<<s[1]>>) \o Tail(s)
    ELSE LET hits == {k \in 1..(Len(s) - 1) : s[k] = "-" /\ IsWordChar(s[k + 1])}
         IN  IF hits = {} THEN s
             ELSE LET k == CHOOSE x \in hits : \A y \in hits : x <= y
                  IN  SubSeq(s, 1, k - 1) \o clearAndUpper(<<s[k], s[k + 1]>>)
                      \o SubSeq(s, k + 2, Len(s))

\* str.replace(/(^\w|-\w)/g, clearAndUpper): the matches are found left to
\* right and do not overlap; ^\w can only match at the first character
RECURSIVE ReplaceWordStarts(_, _)
ReplaceWordStarts(s, p) ==
    IF p > Len(s) THEN <<>>
    ELSE IF p = 1 /\ IsWordChar(s[1])
         THEN clearAndUpper(<<s[1]>>) \o ReplaceWordStarts(s, 2)
    ELSE IF s[p] = "-" /\ p + 1 <= Len(s) /\ IsWordChar(s[p + 1])
         THEN clearAndUpper(<<s[p], s[p + 1]>>) \o ReplaceWordStarts(s, p + 2)
    ELSE <<s[p]>> \o ReplaceWordStarts(s, p + 1)

toPascalCase(s) == RemoveAll(ReplaceWordStarts(s, 1), "-") \o IconSuffix

DotSvg == <<".", "s", "v", "g">>

getFileNameFromUrl(url) ==
    LET fileName == SubSeq(url, LastIndexOf(url, <<"/">>) + 1, Len(url))
    IN  ReplaceFirst(fileName, DotSvg, <<>>)

----------------------------------------------------------------------------
(* Path extraction of the path-only pipeline *)

PathTag == <<"<", "p", "a", "t", "h">>

DAttrOpen == <<"d", "=", "\"">>

\* null of String.prototype.match
NoMatch == [found |-> FALSE, group1 |-> <<>>]

\* where [^>]* starting at q has to stop: the first ">" at or after q
TagEnd(s, q) ==
    LET stops == {k \in q..Len(s) : s[k] = ">"}
    IN  IF stops = {} THEN Len(s) + 1 ELSE CHOOSE k \in stops : \A j \in stops : k <= j

\* where [^"]*" starting at q ends: the first quote at or after q, 0 if none
QuoteAfter(s, q) ==
    LET quotes == {k \in q..Len(s) : s[k] = "\""}
    IN  IF quotes = {} THEN 0 ELSE CHOOSE k \in quotes : \A j \in quotes : k <= j

\* the positions where d="([^"]*)" can follow <path\s[^>]* for a match
\* that starts at p
DStarts(s, p) ==
    {k \in (p + 6)..(TagEnd(s, p + 6) - 1) :
        OccursAt(s, DAttrOpen, k) /\ QuoteAfter(s, k + 3) # 0}

MatchesAt(s, p) ==
    /\ OccursAt(s, PathTag, p)
    /\ p + 5 <= Len(s)
    /\ IsSpace(s[p + 5])
    /\ DStarts(s, p) # {}

\* as PathMatch, had the regular expression been /d="([^"]*)"/, which any
\* element with an attribute ending in d satisfies
PathMatchAnyTag(s) ==
    LET starts == {k \in 1..Len(s) : OccursAt(s, DAttrOpen, k) /\ QuoteAfter(s, k + 3) # 0}
    IN  IF starts = {} THEN NoMatch
        ELSE LET k == CHOOSE x \in starts : \A y \in starts : x <= y
             IN  [found |-> TRUE,
                  group1 |-> SubSeq(s, k + 3, QuoteAfter(s, k + 3) - 1)]

\* svgData.match(/<path\s[^>]*d="([^"]*)"/): the leftmost match; [^>]* is
\* greedy, so within it the last d=" of the tag is the one that is taken
PathMatch(s) ==
    LET starts == {p \in 1..Len(s) : MatchesAt(s, p)}
    IN  IF starts = {} THEN NoMatch
        ELSE LET p == CHOOSE x \in starts : \A y \in starts : x <= y
                 k == CHOOSE x \in DStarts(s, p) : \A y \in DStarts(s, p) : y <= x
             IN  [found |-> TRUE,
                  group1 |-> SubSeq(s, k + 3, QuoteAfter(s, k + 3) - 1)]

----------------------------------------------------------------------------
(* Component templates: a literal stretch of a template is one element,    *)
(* except the characters next to an interpolated value                     *)

OutlineComponent(iconName, ariaLabel, pathData) ==
    <<"\n", "import { IconProps } from './types';", "\n", "\n",
      "export default function ">> \o iconName \o
    <<"(props: IconProps) {\n  return (\n    <svg\n      xmlns=\"http://www.w3.org/2000/svg\"\n      fill=\"none\"\n      viewBox=\"0 0 24 24\"\n      strokeWidth={1.5}\n      stroke=\"currentColor\"\n      className=\"arctic-icon-medium\"\n      ",
      "aria-label", "=", "\"">> \o ariaLabel \o
    <<"\"", "\n      {...props}\n    >\n      <path\n        strokeLinecap=\"round\"\n        strokeLinejoin=\"round\"\n        ",
      "d", "=", "\"">> \o pathData \o
    <<"\"", "\n      />\n    </svg>\n  );\n", "}">>

SolidComponent(iconName, ariaLabel, svgElements) ==
    <<"\n", "import { IconProps } from './types';", "\n", "\n",
      "export default function ">> \o iconName \o
    <<"(props: IconProps) {\n  return (\n    <svg\n      xmlns=\"http://www.w3.org/2000/svg\"\n      fill=\"currentColor\"\n      viewBox=\"0 0 24 24\"\n      className=\"arctic-icon-medium solid\"\n      ",
      "aria-label", "=", "\"">> \o ariaLabel \o
    <<"\"", "\n      {...props}\n    >\n      ">> \o svgElements \o
    <<"\n    </svg>\n  );\n", "}">>

DotTsx == <<".", "t", "s", "x">>

\* join(process.cwd(), 'src', 'assets', 'icons', `${iconName}.tsx`), relative
\* to the working directory
OutlineOutputPath(iconName) ==
    [dir |-> <<"src", "assets", "icons">>, base |-> iconName \o DotTsx]

\* join(process.cwd(), 'src', 'icons', `${iconName}.tsx`)
SolidOutputPath(iconName) ==
    [dir |-> <<"src", "icons">>, base |-> iconName \o DotTsx]

\* dirname(filePath)
dirname(filePath) == filePath.dir

----------------------------------------------------------------------------
(* What the hosting service holds: directory entries and vector documents *)

UrlBase == <<"h", ":", "/", "/", "r", "/">>

FileNames ==
    {<<"a">> \o DotSvg,
     <<"a", "-", "1">> \o DotSvg,
     <<"a", "1">> \o DotSvg,
     <<"b", ".", "p", "n", "g">>,
     <<"c", ".", "S", "V", "G">>}

Entry(name) == [name |-> name, download_url |-> UrlBase \o name]

\* a directory holds each name once
Listings ==
    {l \in UNION {[1..n -> {Entry(f) : f \in FileNames}] : n \in 0..MaxFiles} :
        \A j, k \in DOMAIN l : j # k => l[j].name # l[k].name}

Attr(n, v) == [name |-> n, value |-> v]

PathEl(attrs) == [tag |-> <<"p", "a", "t", "h">>, attrs |-> attrs]

RectEl == [tag |-> <<"r", "e", "c", "t">>, attrs |-> <<Attr(<<"i", "d">>, <<"r">>)>>]

AttrD(v) == Attr(<<"d">>, v)

AttrId == Attr(<<"i", "d">>, <<"p">>)

AttrFill == Attr(<<"f", "i", "l", "l">>, <<"n">>)

\* the documents a download may return, as the elements under the root
Bodies ==
    {<<>>,
     <<RectEl>>,
     <<PathEl(<<AttrD(<<"M">>)>>)>>,
     <<PathEl(<<AttrD(<<"M", " ", "1">>)>>), PathEl(<<AttrD(<<"L">>)>>)>>,
     <<PathEl(<<AttrId, AttrD(<<"M">>)>>)>>,
     <<PathEl(<<AttrD(<<"M">>), AttrId>>)>>,
     <<RectEl, PathEl(<<AttrFill, AttrD(<<"L">>)>>)>>,
     <<PathEl(<<AttrFill>>), PathEl(<<AttrD(<<"L">>)>>)>>}

RECURSIVE RenderAttrs(_)
RenderAttrs(attrs) ==
    IF attrs = <<>> THEN <<>>
    ELSE <<" ">> \o Head(attrs).name \o <<"=", "\"">> \o Head(attrs).value
         \o <<"\"">> \o RenderAttrs(Tail(attrs))

RenderElement(e) == <<"<">> \o e.tag \o RenderAttrs(e.attrs) \o <<"/", ">">>

RECURSIVE RenderElements(_)
RenderElements(elems) ==
    IF elems = <<>> THEN <<>>
    ELSE RenderElement(Head(elems)) \o RenderElements(Tail(elems))

\* the text of a document
RenderSvg(elems) ==
    <<"<", "s", "v", "g", ">">> \o RenderElements(elems)
    \o <<"<", "/", "s", "v", "g", ">">>

----------------------------------------------------------------------------
(* The pipeline *)

ListingRequest == [kind |-> "listing", item |-> 0]

IconRequest(k) == [kind |-> "icon", item |-> k]

OutputPath(iconName) ==
    IF pipeline = "outline" THEN OutlineOutputPath(iconName)
    ELSE SolidOutputPath(iconName)

\* as CollectSvgUrls, had the extension been compared without regard to case
RECURSIVE CollectSvgUrlsAnyCase(_)
CollectSvgUrlsAnyCase(listing) ==
    IF listing = <<>> THEN <<>>
    ELSE IF EndsWith(ToUpperCase(Head(listing).name), ToUpperCase(DotSvg))
         THEN <<Head(listing).download_url>> \o CollectSvgUrlsAnyCase(Tail(listing))
         ELSE CollectSvgUrlsAnyCase(Tail(listing))

\* files.forEach(file => { if (file.name.endsWith('.svg')) svgUrls.push(file.download_url) })
RECURSIVE CollectSvgUrls(_)
CollectSvgUrls(listing) ==
    IF listing = <<>> THEN <<>>
    ELSE IF EndsWith(Head(listing).name, DotSvg)
         THEN <<Head(listing).download_url>> \o CollectSvgUrls(Tail(listing))
         ELSE CollectSvgUrls(Tail(listing))

Init ==
    /\ pipeline \in {"solid", "outline"}
    /\ repoDir \in Listings
    /\ dirs \in {{}, {dirname(OutputPath(<<>>))}}
    /\ files = <<>>
    /\ pc = "start"
    /\ svgUrls = <<>>
    /\ idx = 1
    /\ inflight = {}
    /\ requests = <<>>
    /\ served = <<>>
    /\ writes = <<>>
    /\ mkdirs = {}
    /\ errors = <<>>
    /\ str = <<>>
    /\ derived = <<>>
    /\ rederived = <<>>
    /\ nstep = "off"

\* processGithubSvgs calls fetchGithubSvgUrls, which issues the listing request
RequestListing ==
    /\ pc = "start"
    /\ pc' = "listing"
    /\ inflight' = inflight \cup {ListingRequest}
    /\ requests' = Append(requests, ListingRequest)
    /\ UNCHANGED <<pipeline, repoDir, dirs, files, svgUrls, idx, served, writes,
                   mkdirs, errors>>
    /\ UNCHANGED nameVars

\* as ListingFails, had the catch of fetchGithubSvgUrls logged and thrown
\* again: the rejection reaches processGithubSvgs and ends it
ListingFailsRethrown ==
    /\ pc = "listing"
    /\ ListingRequest \in inflight
    /\ inflight' = inflight \ {ListingRequest}
    /\ errors' = Append(errors, [what |-> "listing", item |-> 0])
    /\ pc' = "rejected"
    /\ UNCHANGED <<pipeline, repoDir, dirs, files, svgUrls, idx, requests, served,
                   writes, mkdirs>>
    /\ UNCHANGED nameVars

\* the listing request is rejected: the catch of fetchGithubSvgUrls returns [],
\* and convertSvgToReact starts on it
ListingFails ==
    /\ pc = "listing"
    /\ ListingRequest \in inflight
    /\ inflight' = inflight \ {ListingRequest}
    /\ errors' = Append(errors, [what |-> "listing", item |-> 0])
    /\ svgUrls' = <<>>
    /\ idx' = 1
    /\ pc' = "loop"
    /\ UNCHANGED <<pipeline, repoDir, dirs, files, requests, served, writes, mkdirs>>
    /\ UNCHANGED nameVars

\* the listing request is answered: the entries are filtered, and
\* convertSvgToReact starts on the urls
ListingOk ==
    /\ pc = "listing"
    /\ ListingRequest \in inflight
    /\ inflight' = inflight \ {ListingRequest}
    /\ svgUrls' = CollectSvgUrls(repoDir)
    /\ idx' = 1
    /\ pc' = "loop"
    /\ UNCHANGED <<pipeline, repoDir, dirs, files, requests, served, writes, mkdirs,
                   errors>>
    /\ UNCHANGED nameVars

\* as IterBegin, had the request not been awaited: the loop goes on to the
\* next url while the request is outstanding
IterBeginNoAwait ==
    /\ pc = "loop"
    /\ idx <= Len(svgUrls)
    /\ inflight' = inflight \cup {IconRequest(idx)}
    /\ requests' = Append(requests, IconRequest(idx))
    /\ idx' = idx + 1
    /\ UNCHANGED <<pipeline, repoDir, dirs, files, svgUrls, pc, served, writes,
                   mkdirs, errors>>
    /\ UNCHANGED nameVars

\* the head of an iteration, up to `await axios.get(url)`
IterBegin ==
    /\ pc = "loop"
    /\ idx <= Len(svgUrls)
    /\ inflight' = inflight \cup {IconRequest(idx)}
    /\ requests' = Append(requests, IconRequest(idx))
    /\ pc' = "fetching"
    /\ UNCHANGED <<pipeline, repoDir, dirs, files, svgUrls, idx, served, writes,
                   mkdirs, errors>>
    /\ UNCHANGED nameVars

\* as FetchFails, had the try enclosed the loop instead of its body: the
\* first rejection ends the batch
FetchFailsEndsBatch ==
    /\ pc = "fetching"
    /\ IconRequest(idx) \in inflight
    /\ inflight' = inflight \ {IconRequest(idx)}
    /\ served' = Append(served, [ok |-> FALSE, body |-> <<>>, lib |-> FALSE])
    /\ errors' = Append(errors, [what |-> "caught", item |-> idx])
    /\ pc' = "done"
    /\ UNCHANGED <<pipeline, repoDir, dirs, files, svgUrls, idx, requests, writes,
                   mkdirs>>
    /\ UNCHANGED nameVars

\* axios.get rejects (network error or non-2xx): the catch of the iteration
\* logs, and the loop goes on
FetchFails ==
    /\ pc = "fetching"
    /\ IconRequest(idx) \in inflight
    /\ inflight' = inflight \ {IconRequest(idx)}
    /\ served' = Append(served, [ok |-> FALSE, body |-> <<>>, lib |-> FALSE])
    /\ errors' = Append(errors, [what |-> "caught", item |-> idx])
    /\ idx' = idx + 1
    /\ pc' = "loop"
    /\ UNCHANGED <<pipeline, repoDir, dirs, files, svgUrls, requests, writes, mkdirs>>
    /\ UNCHANGED nameVars

\* existsSync(dir) ? true : (mkdirSync(dir, { recursive: true }), false)
ensureDirectoryExistence(filePath) ==
    IF dirname(filePath) \in dirs
    THEN UNCHANGED <<dirs, mkdirs>>
    ELSE /\ dirs' = dirs \cup {dirname(filePath)}
         /\ mkdirs' = mkdirs \cup {idx}

\* writeFileSync(path, text): creates the file or replaces its text
writeFileSync(path, text) ==
    /\ files' = [q \in DOMAIN files \cup {path} |->
                    IF q = path THEN text ELSE files[q]]
    /\ writes' = Append(writes, [item |-> idx, path |-> path, text |-> text])

\* the rest of an iteration of the path-only program once the download arrived
PathOnlyContinue(body) ==
    /\ pipeline = "outline"
    /\ pc = "fetching"
    /\ IconRequest(idx) \in inflight
    /\ inflight' = inflight \ {IconRequest(idx)}
    /\ served' = Append(served, [ok |-> TRUE, body |-> body, lib |-> TRUE])
    /\ LET url == svgUrls[idx]
           fileName == getFileNameFromUrl(url)
           iconName == toPascalCase(fileName)
           ariaLabel == fileName
           svgData == RenderSvg(body)
           pathMatch == PathMatch(svgData)
       IN  IF ~pathMatch.found
           THEN /\ errors' = Append(errors, [what |-> "nopath", item |-> idx])
                /\ UNCHANGED <<dirs, files, writes, mkdirs>>
           ELSE LET pathData == pathMatch.group1
                    reactComponent == OutlineComponent(iconName, ariaLabel, pathData)
                    outputPath == OutlineOutputPath(iconName)
                IN  /\ ensureDirectoryExistence(outputPath)
                    /\ writeFileSync(outputPath, Trim(reactComponent))
                    /\ UNCHANGED errors
    /\ idx' = idx + 1
    /\ pc' = "loop"
    /\ UNCHANGED <<pipeline, repoDir, svgUrls, requests>>
    /\ UNCHANGED nameVars

\* prettier.format: the text reformatted, ending in one line break
Format(text) == Trim(text) \o <<"\n">>

\* the rest of an iteration of the full-markup program once the download
\* arrived; optimize, cheerio and prettier either transform the document
\* (libOk) or throw, and the catch of the iteration logs. What the libraries
\* rewrite inside the markup is not modelled: svgElements is the markup under
\* the root as downloaded
FullMarkupContinue(body, libOk) ==
    /\ pipeline = "solid"
    /\ pc = "fetching"
    /\ IconRequest(idx) \in inflight
    /\ inflight' = inflight \ {IconRequest(idx)}
    /\ served' = Append(served, [ok |-> TRUE, body |-> body, lib |-> libOk])
    /\ LET url == svgUrls[idx]
           fileName == getFileNameFromUrl(url)
           iconName == toPascalCase(fileName)
           ariaLabel == fileName
           svgElements == RenderElements(body)
           reactComponent == SolidComponent(iconName, ariaLabel, svgElements)
           formattedCode == Format(reactComponent)
           outputPath == SolidOutputPath(iconName)
       IN  IF ~libOk
           THEN /\ errors' = Append(errors, [what |-> "caught", item |-> idx])
                /\ UNCHANGED <<dirs, files, writes, mkdirs>>
           ELSE /\ ensureDirectoryExistence(outputPath)
                /\ writeFileSync(outputPath, formattedCode)
                /\ UNCHANGED errors
    /\ idx' = idx + 1
    /\ pc' = "loop"
    /\ UNCHANGED <<pipeline, repoDir, svgUrls, requests>>
    /\ UNCHANGED nameVars

\* the for..of loop is exhausted: convertSvgToReact and processGithubSvgs return
LoopEnd ==
    /\ pc = "loop"
    /\ idx > Len(svgUrls)
    /\ pc' = "done"
    /\ UNCHANGED <<pipeline, repoDir, dirs, files, svgUrls, idx, inflight, requests,
                   served, writes, mkdirs, errors>>
    /\ UNCHANGED nameVars

Next ==
    \/ RequestListing
    \/ ListingFails
    \/ ListingOk
    \/ IterBegin
    \/ FetchFails
    \/ \E body \in Bodies : PathOnlyContinue(body)
    \/ \E body \in Bodies, libOk \in BOOLEAN : FullMarkupContinue(body, libOk)
    \/ LoopEnd

Spec == Init /\ [][Next]_vars

----------------------------------------------------------------------------
(* Name derivation on its own *)

NameAlphabet == {"a", "b", "1", "-", "A"}

Strings(n) == UNION {[1..k -> NameAlphabet] : k \in 0..n}

InitName ==
    /\ str \in Strings(MaxLen)
    /\ derived = <<>>
    /\ rederived = <<>>
    /\ nstep = "in"
    /\ pipeline = "outline"
    /\ repoDir = <<>>
    /\ dirs = {}
    /\ files = <<>>
    /\ pc = "off"
    /\ svgUrls = <<>>
    /\ idx = 1
    /\ inflight = {}
    /\ requests = <<>>
    /\ served = <<>>
    /\ writes = <<>>
    /\ mkdirs = {}
    /\ errors = <<>>

\* iconName = toPascalCase(fileName)
Derive ==
    /\ nstep = "in"
    /\ derived' = toPascalCase(str)
    /\ nstep' = "once"
    /\ UNCHANGED <<str, rederived>>
    /\ UNCHANGED pipeVars

\* the derived name given to toPascalCase again
Rederive ==
    /\ nstep = "once"
    /\ rederived' = toPascalCase(derived)
    /\ nstep' = "twice"
    /\ UNCHANGED <<str, derived>>
    /\ UNCHANGED pipeVars

NextName == Derive \/ Rederive

SpecName == InitName /\ [][NextName]_vars

----------------------------------------------------------------------------
(* Vocabulary of the properties *)

\* pat occurs somewhere in text
Contains(text, pat) == \E p \in 1..(Len(text) + 1) : OccursAt(text, pat, p)

ListingFailed == \E e \in DOMAIN errors : errors[e].what = "listing"

\* item k of the batch had writeFileSync called for it
Written(k) == \E w \in DOMAIN writes : writes[w].item = k

\* the download of item k arrived and its transformation produced a body
FetchedAndTransformed(k) ==
    /\ served[k].ok
    /\ IF pipeline = "outline"
       THEN PathMatch(RenderSvg(served[k].body)).found
       ELSE served[k].lib

IsPathEl(e) == e.tag = <<"p", "a", "t", "h">>

PathEls(body) == SelectSeq(body, IsPathEl)

HasD(e) == \E a \in DOMAIN e.attrs : e.attrs[a].name = <<"d">>

\* the value of the d attribute of an element that has one
DOf(e) == e.attrs[CHOOSE a \in DOMAIN e.attrs : e.attrs[a].name = <<"d">>].value

Quoted(name, value) == name \o <<"=", "\"">> \o value \o <<"\"">>

\* a file-name stem of lowercase words joined by single hyphens
ValidStem(s) ==
    /\ s # <<>>
    /\ \A k \in DOMAIN s : s[k] \in Range(LowerLetters) \cup Digits \cup {"-"}
    /\ s[1] # "-"
    /\ s[Len(s)] # "-"
    /\ \A k \in 1..(Len(s) - 1) : ~(s[k] = "-" /\ s[k + 1] = "-")

\* the stem with the first character of every word upper-cased and the
\* hyphens left out
CapitalizedWords(s) ==
    SelectSeq([k \in DOMAIN s |->
                  IF k = 1 \/ s[k - 1] = "-" THEN UpperChar(s[k]) ELSE s[k]],
              LAMBDA ch : ch # "-")

\* the positions of the listing whose name ends in . s v g
SvgPositions ==
    {k \in DOMAIN repoDir :
        LET n == repoDir[k].name
        IN  /\ Len(n) >= 4
            /\ n[Len(n) - 3] = "." /\ n[Len(n) - 2] = "s"
            /\ n[Len(n) - 1] = "v" /\ n[Len(n)] = "g"}

----------------------------------------------------------------------------
(* Properties *)

C2_ListingFailureProcessesNothing ==
    ListingFailed =>
        /\ svgUrls = <<>>
        /\ requests = <<ListingRequest>>
        /\ served = <<>>
        /\ writes = <<>>
        /\ files = <<>>
        /\ mkdirs = {}
        /\ \/ pc = "loop" /\ idx > Len(svgUrls)
           \/ pc = "done"

\* C2 witness: the listing of a directory that holds vector files failed and
\* the run has returned
C2_Witness ==
    /\ ListingFailed
    /\ pc = "done"
    /\ SvgPositions # {}

\* C3: after a successful listing the urls are exactly the download urls of
\* the entries whose name ends in .svg, in the order of the listing
C3_ListingFilter ==
    (pc \in {"loop", "fetching", "done"} /\ ~ListingFailed) =>
        /\ Len(svgUrls) = Cardinality(SvgPositions)
        /\ \A k \in SvgPositions :
              svgUrls[Cardinality({j \in SvgPositions : j <= k})]
                  = repoDir[k].download_url

\* C3 witness: a listing of two .svg entries with a .SVG entry between them
\* was filtered to the two
C3_Witness ==
    /\ pc = "loop"
    /\ ~ListingFailed
    /\ Len(repoDir) = 3
    /\ repoDir[2].name = <<"c", ".", "S", "V", "G">>
    /\ Len(svgUrls) = 2

\* C4: in the path-only program every written component carries the d value
\* of the first path element of the document, when that element has one
C4_FirstPathD ==
    pipeline = "outline" =>
        \A w \in DOMAIN writes :
            LET paths == PathEls(served[writes[w].item].body)
            IN  (paths # <<>> /\ HasD(paths[1])) =>
                    Contains(writes[w].text, Quoted(<<"d">>, DOf(paths[1])))

\* C5: in the path-only program an item whose document has no path element
\* is skipped: nothing is written and no directory is made for it, the miss
\* is logged, and the loop still ends only after every url was attempted
C5_NoPathSkipped ==
    pipeline = "outline" =>
        /\ \A k \in DOMAIN served :
              (served[k].ok /\ PathEls(served[k].body) = <<>>) =>
                  /\ ~Written(k)
                  /\ k \notin mkdirs
                  /\ \E e \in DOMAIN errors : errors[e] = [what |-> "nopath", item |-> k]
        /\ pc = "done" => Len(served) = Len(svgUrls)

\* C5 witness: the first document had an element but no path, the output
\* directory was still missing afterwards, and the second item made it and
\* was written
C5_Witness ==
    /\ pipeline = "outline"
    /\ pc = "done"
    /\ Len(served) = 2
    /\ served[1].ok
    /\ served[1].body = <<RectEl>>
    /\ 2 \in mkdirs
    /\ Written(2)

\* C6: for a valid hyphenated lowercase stem the derived name is the words
\* capitalized and joined without hyphens, followed by Icon once
C6_PascalCaseName ==
    (nstep \in {"once", "twice"} /\ ValidStem(str)) =>
        /\ derived = CapitalizedWords(str) \o IconSuffix
        /\ \A k \in DOMAIN derived : derived[k] # "-"
        /\ Len(derived) = Len(RemoveAll(str, "-")) + 4

\* C6 witness: a-b1 gave AB1Icon
C6_Witness ==
    /\ nstep = "once"
    /\ str = <<"a", "-", "b", "1">>
    /\ derived = <<"A", "B", "1", "I", "c", "o", "n">>

\* C7: deriving a name from a derived name gives the same name
C7_Idempotent ==
    (nstep = "twice" /\ ValidStem(str)) => rederived = derived

\* C8: the path-only program, run on a listing of one .svg file whose
\* document has one path element with d value D, writes exactly one file,
\* src/assets/icons/<toPascalCase(stem)>.tsx, whose text has d="D" and
\* aria-label="<stem>"
C8_EndToEnd ==
    (/\ pipeline = "outline"
     /\ pc = "done"
     /\ ~ListingFailed
     /\ Len(repoDir) = 1
     /\ SvgPositions = {1}
     /\ served[1].ok
     /\ Len(PathEls(served[1].body)) = 1
     /\ HasD(PathEls(served[1].body)[1])) =>
        LET name == repoDir[1].name
            stem == SubSeq(name, 1, Len(name) - 4)
            D == DOf(PathEls(served[1].body)[1])
            path == [dir |-> <<"src", "assets", "icons">>,
                     base |-> toPascalCase(stem) \o DotTsx]
        IN  /\ Len(writes) = 1
            /\ DOMAIN files = {path}
            /\ Contains(files[path], Quoted(<<"d">>, D))
            /\ Contains(files[path], Quoted(<<"aria-label">>, stem))

\* C9: no two iterations of a run write to the same path
C9_DistinctOutputPaths ==
    \A v, w \in DOMAIN writes : v # w => writes[v].path # writes[w].path

\* C10: the listing request is the first request and is over before any
\* per-icon request is issued, the per-icon requests are issued in the order
\* of the list, each only after every earlier item has completed, and at
\* most one request is outstanding
C10_Sequential ==
    /\ Cardinality(inflight) <= 1
    /\ \A r \in DOMAIN requests :
          IF r = 1 THEN requests[r] = ListingRequest
          ELSE /\ requests[r] = IconRequest(r - 1)
               /\ ListingRequest \notin inflight
               /\ Len(served) >= r - 2
    /\ \A q \in inflight : q.kind = "icon" => Len(served) = q.item - 1

\* C10 witness: the third download is outstanding after the first two
\* items completed
C10_Witness ==
    /\ pc = "fetching"
    /\ inflight = {IconRequest(3)}
    /\ Len(served) = 2

====
